---- MODULE Spec2Model ----
(***************************************************************************)
(* A model of edc_screening.screening_eligibility.ScreeningEligibility:    *)
(* the construction of one evaluator (field resolution, base rules, the    *)
(* assess_eligibility hook, validation, write-back onto the model          *)
(* instance) followed by the accesses a caller makes on the constructed    *)
(* evaluator (the missing_data property, attribute assignment).            *)
(***************************************************************************)
EXTENDS Integers, Sequences, FiniteSets, TLC

\* ------------------------------------------------------------------------
\* Python values.  Every value is a record of the same shape so that values
\* of different Python types can be compared for equality.
\* ------------------------------------------------------------------------
None == [t |-> "none", s |-> "", n |-> 0]

StrOf(s) == [t |-> "str", s |-> s, n |-> 0]

IntOf(n) == [t |-> "int", s |-> "", n |-> n]

\* bool(value) for None, str and int
Truthy(v) ==
    CASE v.t = "none" -> FALSE
      [] v.t = "str" -> v.s # ""
      [] v.t = "int" -> v.n # 0

\* str(value), as one chunk of text
PyStr(v) ==
    CASE v.t = "none" -> "None"
      [] v.t = "str" -> v.s
      [] v.t = "int" -> ToString(v.n)

\* ------------------------------------------------------------------------
\* edc_constants
\* ------------------------------------------------------------------------
YES == "Yes"

NO == "No"

TBD == "TBD"

NOT_APPLICABLE == "N/A"

\* ------------------------------------------------------------------------
\* FC: the criterion of one field.  `value` is None, a str, a list or a
\* range; `msg` is text (a sequence of chunks) or None.
\* ------------------------------------------------------------------------
NoValue == [t |-> "none", s |-> "", items |-> <<>>, lo |-> 0, hi |-> 0]

StrValue(s) == [t |-> "str", s |-> s, items |-> <<>>, lo |-> 0, hi |-> 0]

ListValue(items) == [t |-> "list", s |-> "", items |-> items, lo |-> 0, hi |-> 0]

RangeValue(lo, hi) == [t |-> "range", s |-> "", items |-> <<>>, lo |-> lo, hi |-> hi]

NoText == [none |-> TRUE, text |-> <<>>]

Text(chunks) == [none |-> FALSE, text |-> chunks]

FC(value, msg, ignore_if_missing, missing_value) ==
    [value |-> value, msg |-> msg, ignore_if_missing |-> ignore_if_missing,
     missing_value |-> missing_value]

\* bool(fc.value)
ValueTruthy(value) ==
    CASE value.t = "none" -> FALSE
      [] value.t = "str" -> value.s # ""
      [] value.t = "list" -> Len(value.items) > 0
      [] value.t = "range" -> value.lo < value.hi

\* x in fc.value, for a list or a range
Contains(value, x) ==
    CASE value.t = "list" -> \E i \in 1..Len(value.items) : value.items[i] = x
      [] value.t = "range" -> x.t = "int" /\ value.lo <= x.n /\ x.n < value.hi
      [] OTHER -> FALSE

\* ------------------------------------------------------------------------
\* The required-fields table of the evaluator subclass under study, in the
\* order of the dict returned by get_required_fields().
\* ------------------------------------------------------------------------
Fields == <<"consent_ability", "age_in_years">>

FieldSet == {Fields[i] : i \in 1..Len(Fields)}

Descriptors(f) ==
    IF f = "consent_ability"
    THEN {FC(NoValue, NoText, FALSE, None),
          FC(StrValue(YES), NoText, FALSE, None),
          FC(StrValue(YES), Text(<<"Unable to consent">>), TRUE, None),
          FC(ListValue(<<StrOf(YES)>>), NoText, FALSE, StrOf(NOT_APPLICABLE)),
          FC(StrValue(""), NoText, FALSE, None)}
    ELSE {FC(NoValue, NoText, FALSE, None),
          FC(RangeValue(18, 65), NoText, FALSE, None),
          FC(RangeValue(18, 65), Text(<<"Age out of range">>), TRUE, None),
          FC(ListValue(<<>>), NoText, FALSE, None)}

\* values a form or a model instance may hold for a field
FieldValues(f) ==
    IF f = "consent_ability"
    THEN {None, StrOf(YES), StrOf(NO), StrOf(NOT_APPLICABLE)}
    ELSE {None, IntOf(20), IntOf(70)}

ModelValues(f) ==
    IF f = "consent_ability" THEN {StrOf(YES), StrOf(NO)} ELSE {IntOf(20)}

\* dicts keyed by a subset of the field names
Mappings(vals) ==
    UNION {{m \in [S -> UNION {vals[f] : f \in S}] : \A f \in S : m[f] \in vals[f]}
           : S \in SUBSET FieldSet}

\* ------------------------------------------------------------------------
\* Text.  A str is modelled as the sequence of the chunks it is built from;
\* the empty str is <<>>.
\* ------------------------------------------------------------------------
\* str.title(): the first letter of every word in upper case
title(s) ==
    CASE s = "consent_ability" -> "Consent_Ability"
      [] s = "age_in_years" -> "Age_In_Years"
      [] s = "consent ability" -> "Consent Ability"
      [] s = "age in years" -> "Age In Years"
      [] OTHER -> s

\* str.replace("_", " ")
replace_underscore(s) ==
    CASE s = "consent_ability" -> "consent ability"
      [] s = "age_in_years" -> "age in years"
      [] s = "Consent_Ability" -> "Consent Ability"
      [] s = "Age_In_Years" -> "Age In Years"
      [] OTHER -> s

RECURSIVE Join(_, _)
\* sep.join(parts), parts a sequence of texts
Join(sep, parts) ==
    IF Len(parts) = 0 THEN <<>>
    ELSE IF Len(parts) = 1 THEN parts[1]
    ELSE parts[1] \o <<sep>> \o Join(sep, Tail(parts))

\* ------------------------------------------------------------------------
\* dicts with str keys, kept as the sequence of their items in insertion
\* order
\* ------------------------------------------------------------------------
Keys(d) == {d[i].k : i \in 1..Len(d)}

DictValues(d) == [i \in 1..Len(d) |-> d[i].v]

\* d.update({k: v}): an existing key keeps its position
Update(d, k, v) ==
    IF k \in Keys(d)
    THEN [i \in 1..Len(d) |-> IF d[i].k = k THEN [k |-> k, v |-> v] ELSE d[i]]
    ELSE Append(d, [k |-> k, v |-> v])

RECURSIVE UpdateAll(_, _)
\* d.update(**other)
UpdateAll(d, other) ==
    IF Len(other) = 0 THEN d
    ELSE UpdateAll(Update(d, other[1].k, other[1].v), Tail(other))

Get(d, k) == (CHOOSE i \in 1..Len(d) : d[i].k = k)

\* reasons_ineligible is a dict, or None when a hook sets it so
Reasons(items) == [none |-> FALSE, items |-> items]

NoReasons == [none |-> TRUE, items |-> <<>>]

\* bool(reasons_ineligible)
ReasonsTruthy(r) == ~r.none /\ Len(r.items) > 0

\* ------------------------------------------------------------------------
\* Exceptions
\* ------------------------------------------------------------------------
NoError == [kind |-> "", field |-> ""]

Raise(kind, field) == [kind |-> kind, field |-> field]

\* ------------------------------------------------------------------------
\* set_fld_attrs_on_self
\* ------------------------------------------------------------------------
\* bool(cleaned_data): a dict that was supplied and is not empty
CleanedDataTruthy(cd) == cd.supplied /\ DOMAIN cd.data # {}

\* dict.get(key)
DictGet(data, f) == IF f \in DOMAIN data THEN data[f] ELSE None

\* the value of one required field, or the exception raised instead
ResolveValue(mo, cd, f) ==
    IF mo.supplied
    THEN IF CleanedDataTruthy(cd)
         THEN [err |-> NoError, value |-> DictGet(cd.data, f)]
         ELSE IF f \in DOMAIN mo.attrs
              THEN [err |-> NoError, value |-> mo.attrs[f]]
              ELSE [err |-> Raise("ScreeningEligibilityModelAttributeError", f),
                    value |-> None]
    ELSE IF ~cd.supplied
         THEN [err |-> Raise("TypeError", f), value |-> None]
         ELSE IF f \in DOMAIN cd.data
              THEN [err |-> NoError, value |-> cd.data[f]]
              ELSE [err |-> Raise("ScreeningEligibilityCleanedDataKeyError", f),
                    value |-> None]

RECURSIVE set_fld_attrs_on_self(_, _, _, _)
\* the loop over the required fields from position i, with the attributes
\* set so far; stops at the first exception
set_fld_attrs_on_self(mo, cd, a, i) ==
    IF i > Len(Fields) THEN [err |-> NoError, attrs |-> a]
    ELSE LET f == Fields[i] IN
         IF f \notin DOMAIN a
         THEN [err |-> Raise("ScreeningEligibilityAttributeError", f), attrs |-> a]
         ELSE LET r == ResolveValue(mo, cd, f) IN
              IF r.err # NoError THEN [err |-> r.err, attrs |-> a]
              ELSE set_fld_attrs_on_self(mo, cd, [a EXCEPT ![f] = r.value], i + 1)

\* ------------------------------------------------------------------------
\* missing_data
\* ------------------------------------------------------------------------
\* IsMissing without the comparison with fc.missing_value
IsMissing_NoSentinel(fc, value) == ~fc.ignore_if_missing /\ ~Truthy(value)

\* whether the loop records the field in missing_responses with a falsy value
IsMissing(fc, value) ==
    /\ ~fc.ignore_if_missing
    /\ IF Truthy(value)
       THEN Truthy(fc.missing_value) /\ value = fc.missing_value
       ELSE TRUE

\* the message of a missing field: a backtick, k.replace('_', ' ').title(),
\* a backtick, " not answered"; BACKTICK is the chunk standing for the
\* backtick character
MissingMessage(k) ==
    <<"BACKTICK", title(replace_underscore(k)), "BACKTICK", " not answered">>

RECURSIVE ComputeMissing(_, _, _)
\* the dict built when the cache is empty, from field position i on
ComputeMissing(rf, a, i) ==
    IF i > Len(Fields) THEN <<>>
    ELSE LET f == Fields[i] IN
         (IF IsMissing(rf[f], a[f])
          THEN <<[k |-> f, v |-> MissingMessage(f)]>> ELSE <<>>)
         \o ComputeMissing(rf, a, i + 1)

\* the property: recomputes when the cached dict is falsy
missing_data(cache, rf, a) ==
    IF Len(cache) = 0 THEN ComputeMissing(rf, a, 1) ELSE cache

\* ------------------------------------------------------------------------
\* _assess_eligibility, the base rules (lines 165-186)
\* ------------------------------------------------------------------------
\* FieldFails without the membership test of a list, tuple or range
FieldFails_StrOnly(fc, value) == fc.value.t = "str" /\ value # StrOf(fc.value.s)

\* the test of one field against its accepted value
FieldFails(fc, value) ==
    \/ fc.value.t = "str" /\ value # StrOf(fc.value.s)
    \/ fc.value.t \in {"list", "range"} /\ ~Contains(fc.value, value)

FieldMessage(fc, f, value, verbose) ==
    LET msg == IF ~fc.msg.none /\ Len(fc.msg.text) > 0
               THEN fc.msg.text ELSE <<replace_underscore(title(f))>>
    IN IF verbose THEN msg \o <<". Got ", f, "=", PyStr(value)>> ELSE msg

\* one of the two identical `if` statements of the loop body
TestField(st, fc, f, value, verbose, conf) ==
    IF FieldFails(fc, value)
    THEN [eligible |-> conf.is_ineligible_value,
          reasons |-> Update(st.reasons, f, FieldMessage(fc, f, value, verbose))]
    ELSE st

\* IsTested without the exclusion of the missing fields
IsTested_IgnoresMissing(fc, f, md) == ValueTruthy(fc.value)

\* whether the loop tests the field at all
IsTested(fc, f, md) == f \notin Keys(md) /\ ValueTruthy(fc.value)

RECURSIVE RuleLoop(_, _, _, _, _, _, _)
RuleLoop(st, rf, a, md, verbose, conf, i) ==
    IF i > Len(Fields) THEN st
    ELSE LET f == Fields[i]
             once == TestField(st, rf[f], f, a[f], verbose, conf)
             twice == TestField(once, rf[f], f, a[f], verbose, conf)
         IN RuleLoop(IF IsTested(rf[f], f, md) THEN twice ELSE st,
                     rf, a, md, verbose, conf, i + 1)

\* eligible and reasons_ineligible after the base rules
BaseRules(reasons, rf, a, md, verbose, conf) ==
    LET start == IF Len(md) > 0
                 THEN [eligible |-> conf.eligible_value_default,
                       reasons |-> UpdateAll(reasons, md)]
                 ELSE [eligible |-> conf.is_eligible_value, reasons |-> reasons]
    IN RuleLoop(start, rf, a, md, verbose, conf, 1)

\* is_eligible
is_eligible(eligible, conf) == eligible = conf.is_eligible_value

\* ------------------------------------------------------------------------
\* the validation at the end of __init__ (lines 101-125)
\* ------------------------------------------------------------------------
InList(x, list) == \E i \in 1..Len(list) : list[i] = x

\* Validate without the two checks of the combination
Validate_NoCombination(eligible, reasons, conf) ==
    IF ~InList(eligible, conf.eligible_values_list) \/ reasons.none
    THEN Raise("ScreeningEligibilityError", "eligible")
    ELSE NoError

Validate(eligible, reasons, conf) ==
    IF ~InList(eligible, conf.eligible_values_list)
    THEN Raise("ScreeningEligibilityError", "eligible")
    ELSE IF eligible = "" \/ ~InList(eligible, conf.eligible_values_list) \/ reasons.none
    THEN Raise("ScreeningEligibilityError", "reasons_ineligible")
    ELSE IF eligible = conf.is_eligible_value /\ ReasonsTruthy(reasons)
    THEN Raise("ScreeningEligibilityInvalidCombination", "eligible")
    ELSE IF eligible # conf.is_eligible_value /\ ~ReasonsTruthy(reasons)
    THEN Raise("ScreeningEligibilityInvalidCombination", "reasons_ineligible")
    ELSE NoError

\* ------------------------------------------------------------------------
\* _set_fld_attrs_on_model
\* ------------------------------------------------------------------------
\* JoinedReasons without the fallback to None
JoinedReasons_NoNone(reasons) == Text(Join("|", DictValues(reasons.items)))

\* "|".join(self.reasons_ineligible.values()) or None
JoinedReasons(reasons) ==
    LET joined == Join("|", DictValues(reasons.items))
    IN IF Len(joined) = 0 THEN NoText ELSE Text(joined)

\* ------------------------------------------------------------------------
\* State
\* ------------------------------------------------------------------------
VARIABLES
    required_fields,     \* get_required_fields(): field name -> FC
    cleaned_data,        \* the cleaned_data argument: supplied?, its items
    model_obj,           \* the model_obj argument: supplied?, its attributes,
                         \* its eligible and reasons_ineligible fields, the
                         \* number of times it was saved
    verbose,             \* the verbose argument
    conf,                \* eligible_value_default, eligible_values_list,
                         \* is_eligible_value, is_ineligible_value
    attrs,               \* the field attributes readable on the evaluator
    eligible,            \* self.eligible
    reasons_ineligible,  \* self.reasons_ineligible
    missing_data_cache,  \* self._missing_data
    pc,                  \* the statement of __init__ that runs next
    err,                 \* the exception that ended __init__, if any
    trace,               \* the steps of __init__ taken so far
    tentative,           \* self.eligible when the base rules finished
    hook,                \* which assess_eligibility ran: "", default, override
    first_missing,       \* the dict missing_data returned when first read
    returned,            \* the dict missing_data returned when last read
    accesses,            \* reads of missing_data after construction
    assignments          \* attribute assignments after construction

vars == <<required_fields, cleaned_data, model_obj, verbose, conf, attrs,
          eligible, reasons_ineligible, missing_data_cache, pc, err, trace,
          tentative, hook, first_missing, returned, accesses, assignments>>

inputs == <<required_fields, cleaned_data, verbose, conf>>

\* reads of missing_data a caller makes on a constructed evaluator
MaxAccess == 2

\* attribute assignments a caller makes on a constructed evaluator
MaxAssign == 1

\* the keyword arguments that configure the tokens: none; all four; only
\* is_eligible_value
Configs ==
    {[eligible_value_default |-> TBD, eligible_values_list |-> <<YES, NO, TBD>>,
      is_eligible_value |-> YES, is_ineligible_value |-> NO],
     [eligible_value_default |-> "PENDING",
      eligible_values_list |-> <<"Y", "N", "PENDING">>,
      is_eligible_value |-> "Y", is_ineligible_value |-> "N"],
     [eligible_value_default |-> TBD, eligible_values_list |-> <<YES, NO, TBD>>,
      is_eligible_value |-> "Y", is_ineligible_value |-> NO]}

EmptyDict == [f \in {} |-> None]

NoCleanedData == [supplied |-> FALSE, data |-> EmptyDict]

NoModelObj ==
    [supplied |-> FALSE, attrs |-> EmptyDict, eligible |-> "",
     reasons_ineligible |-> NoText, saves |-> 0]

\* the eligible and reasons_ineligible fields of a model instance that was
\* screened before
StaleEligible == "False"

StaleReasons == Text(<<"stale">>)

\* the attributes the evaluator class declares, each None
ClassAttrs == {[f \in S |-> None] : S \in {FieldSet, FieldSet \ {"age_in_years"}}}

Init ==
    /\ required_fields \in
         {rf \in [FieldSet -> UNION {Descriptors(f) : f \in FieldSet}] :
            \A f \in FieldSet : rf[f] \in Descriptors(f)}
    /\ cleaned_data \in
         {NoCleanedData} \cup
         {[supplied |-> TRUE, data |-> m] : m \in Mappings([f \in FieldSet |-> FieldValues(f)])}
    /\ model_obj \in
         {NoModelObj} \cup
         {[supplied |-> TRUE, attrs |-> m, eligible |-> StaleEligible,
           reasons_ineligible |-> StaleReasons, saves |-> 0]
          : m \in Mappings([f \in FieldSet |-> ModelValues(f)])}
    /\ verbose \in BOOLEAN
    /\ conf \in Configs
    /\ attrs \in ClassAttrs
    /\ eligible = TBD
    /\ reasons_ineligible = Reasons(<<>>)
    /\ missing_data_cache = <<>>
    /\ pc = "set_fld_attrs_on_self"
    /\ err = NoError
    /\ trace = <<>>
    /\ tentative = ""
    /\ hook = ""
    /\ first_missing = <<>>
    /\ returned = <<>>
    /\ accesses = 0
    /\ assignments = 0

\* ------------------------------------------------------------------------
\* __init__, statement by statement
\* ------------------------------------------------------------------------
\* line 164: self.set_fld_attrs_on_self()
SetFldAttrsOnSelf ==
    /\ pc = "set_fld_attrs_on_self"
    /\ LET r == set_fld_attrs_on_self(model_obj, cleaned_data, attrs, 1) IN
         /\ attrs' = r.attrs
         /\ err' = r.err
         /\ pc' = IF r.err = NoError THEN "base_rules" ELSE "raised"
    /\ trace' = Append(trace, "set_fld_attrs_on_self")
    /\ UNCHANGED <<inputs, model_obj, eligible, reasons_ineligible,
                   missing_data_cache, tentative, hook, first_missing,
                   returned, accesses, assignments>>

\* AfterBaseRules without the is_eligible guard
AfterBaseRules_Always(e, c) == "assess_eligibility"

\* where _assess_eligibility goes after the base rules (lines 187-188)
AfterBaseRules(e, c) == IF is_eligible(e, c) THEN "assess_eligibility" ELSE "validate"

\* lines 165-186
AssessBaseRules ==
    /\ pc = "base_rules"
    /\ LET md == missing_data(missing_data_cache, required_fields, attrs)
           st == BaseRules(reasons_ineligible.items, required_fields, attrs, md,
                           verbose, conf)
       IN /\ missing_data_cache' = md
          /\ first_missing' = md
          /\ returned' = md
          /\ eligible' = st.eligible
          /\ reasons_ineligible' = Reasons(st.reasons)
          /\ tentative' = st.eligible
          /\ pc' = AfterBaseRules(st.eligible, conf)
    /\ trace' = Append(trace, "base_rules")
    /\ UNCHANGED <<inputs, model_obj, attrs, err, hook, accesses, assignments>>

\* line 188 with the assess_eligibility of the base class
AssessEligibilityDefault ==
    /\ pc = "assess_eligibility"
    /\ hook' = "default"
    /\ pc' = "validate"
    /\ trace' = Append(trace, "assess_eligibility")
    /\ UNCHANGED <<inputs, model_obj, attrs, eligible, reasons_ineligible,
                   missing_data_cache, err, tentative, first_missing, returned,
                   accesses, assignments>>

\* what an overriding assess_eligibility may leave in self.eligible
HookVerdicts(c) ==
    {c.is_eligible_value, c.is_ineligible_value, c.eligible_value_default, "INVALID"}

\* what an overriding assess_eligibility may leave in self.reasons_ineligible
HookReasons(r) ==
    {r, Reasons(Update(r.items, "hook", <<"Hook reason">>)), NoReasons}

\* what an overriding assess_eligibility may leave in the field attributes
HookAttrs(a) == {a} \cup {[a EXCEPT ![f] = None] : f \in DOMAIN a}

\* line 188 with an assess_eligibility overridden by the subclass
AssessEligibilityOverride ==
    /\ pc = "assess_eligibility"
    /\ eligible' \in HookVerdicts(conf)
    /\ reasons_ineligible' \in HookReasons(reasons_ineligible)
    /\ attrs' \in HookAttrs(attrs)
    /\ hook' = "override"
    /\ pc' = "validate"
    /\ trace' = Append(trace, "assess_eligibility")
    /\ UNCHANGED <<inputs, model_obj, missing_data_cache, err, tentative,
                   first_missing, returned, accesses, assignments>>

\* lines 101-127
ValidateResult ==
    /\ pc = "validate"
    /\ LET e == Validate(eligible, reasons_ineligible, conf) IN
         /\ err' = e
         /\ pc' = IF e # NoError THEN "raised"
                  ELSE IF model_obj.supplied THEN "_set_fld_attrs_on_model"
                  ELSE "done"
    /\ trace' = Append(trace, "validate")
    /\ UNCHANGED <<inputs, model_obj, attrs, eligible, reasons_ineligible,
                   missing_data_cache, tentative, hook, first_missing, returned,
                   accesses, assignments>>

\* lines 196-201
SetFldAttrsOnModel ==
    /\ pc = "_set_fld_attrs_on_model"
    /\ model_obj' = [model_obj EXCEPT
                       !.reasons_ineligible = JoinedReasons(reasons_ineligible),
                       !.eligible = eligible]
    /\ pc' = "set_fld_attrs_on_model"
    /\ trace' = Append(trace, "_set_fld_attrs_on_model")
    /\ UNCHANGED <<inputs, attrs, eligible, reasons_ineligible,
                   missing_data_cache, err, tentative, hook, first_missing,
                   returned, accesses, assignments>>

\* line 202 with the set_fld_attrs_on_model of the base class
SetFldAttrsOnModelHook ==
    /\ pc = "set_fld_attrs_on_model"
    /\ pc' = "done"
    /\ trace' = Append(trace, "set_fld_attrs_on_model")
    /\ UNCHANGED <<inputs, model_obj, attrs, eligible, reasons_ineligible,
                   missing_data_cache, err, tentative, hook, first_missing,
                   returned, accesses, assignments>>

\* ------------------------------------------------------------------------
\* a caller using the constructed evaluator
\* ------------------------------------------------------------------------
\* a read of the missing_data property
ReadMissingData ==
    /\ pc = "done"
    /\ accesses < MaxAccess
    /\ LET md == missing_data(missing_data_cache, required_fields, attrs) IN
         /\ missing_data_cache' = md
         /\ returned' = md
    /\ accesses' = accesses + 1
    /\ UNCHANGED <<inputs, model_obj, attrs, eligible, reasons_ineligible, pc,
                   err, trace, tentative, hook, first_missing, assignments>>

\* an assignment to a field attribute of the evaluator
AssignAttr ==
    /\ pc = "done"
    /\ assignments < MaxAssign
    /\ \E f \in DOMAIN attrs : \E v \in {None, StrOf(YES)} :
         attrs' = [attrs EXCEPT ![f] = v]
    /\ assignments' = assignments + 1
    /\ UNCHANGED <<inputs, model_obj, eligible, reasons_ineligible,
                   missing_data_cache, pc, err, trace, tentative, hook,
                   first_missing, returned, accesses>>

Next ==
    \/ SetFldAttrsOnSelf
    \/ AssessBaseRules
    \/ AssessEligibilityDefault
    \/ AssessEligibilityOverride
    \/ ValidateResult
    \/ SetFldAttrsOnModel
    \/ SetFldAttrsOnModelHook
    \/ ReadMissingData
    \/ AssignAttr

Spec == Init /\ [][Next]_vars

\* ------------------------------------------------------------------------
\* Properties
\* ------------------------------------------------------------------------
\* set_fld_attrs_on_self raised
ResolutionRaised == pc = "raised" /\ Len(trace) = 1

\* the base rules have run
RulesDone == Len(trace) >= 2

\* the field attributes are still the resolved values
AttrsAsResolved == hook # "override" /\ assignments = 0

\* the evaluator class declares every required field
ClassComplete == DOMAIN attrs = FieldSet

\* the criterion of a field as the claims word it: a str accepted value the
\* value differs from, or a list/tuple/range the value is not a member of
CriterionFails(fc, value) ==
    \/ fc.value.t = "str" /\ (value.t # "str" \/ value.s # fc.value.s)
    \/ fc.value.t = "list" /\ \A i \in 1..Len(fc.value.items) : fc.value.items[i] # value
    \/ fc.value.t = "range" /\ ~(value.t = "int" /\ value.n \in fc.value.lo..(fc.value.hi - 1))

\* the accepted value is not None and not empty
Constrains(fc) ==
    \/ fc.value.t = "str" /\ fc.value.s # ""
    \/ fc.value.t = "list" /\ fc.value.items # <<>>
    \/ fc.value.t = "range" /\ fc.value.lo < fc.value.hi

\* verdict and reasons disagree
Mismatch ==
    \/ eligible = conf.is_eligible_value /\ ReasonsTruthy(reasons_ineligible)
    \/ eligible # conf.is_eligible_value /\ ~ReasonsTruthy(reasons_ineligible)

\* C1 as claimed: a construction that returns has verdict = eligible token
\* iff reasons_ineligible is empty, and a hook that leaves the two in
\* disagreement makes the construction raise the invalid-combination error.
C1_Original ==
    /\ pc = "done" => ~Mismatch
    /\ (hook = "override" /\ Mismatch /\ pc \notin {"validate"})
         => (pc = "raised" /\ err.kind = "ScreeningEligibilityInvalidCombination")

\* C1 amended: a construction that returns has verdict = eligible token iff
\* reasons_ineligible is empty; a hook that leaves the two in disagreement
\* makes the construction raise: the invalid-combination error when the
\* verdict is one of the allowed values and reasons_ineligible is not None,
\* ScreeningEligibilityError otherwise.
C1_Amended ==
    /\ pc = "done" => ~Mismatch
    /\ (hook = "override" /\ Mismatch /\ pc \notin {"validate"})
         => /\ pc = "raised"
            /\ err.kind =
                 IF /\ \E i \in 1..Len(conf.eligible_values_list) :
                         conf.eligible_values_list[i] = eligible
                    /\ ~reasons_ineligible.none
                 THEN "ScreeningEligibilityInvalidCombination"
                 ELSE "ScreeningEligibilityError"

C1_Witness ==
    /\ pc = "raised"
    /\ hook = "override"
    /\ Mismatch
    /\ err.kind = "ScreeningEligibilityInvalidCombination"

\* the required fields that fail, as C2 words it
C2_ClaimedFailing == {f \in FieldSet : CriterionFails(required_fields[f], attrs[f])}

\* the required fields that fail, the accepted value being non-empty
C2_Failing ==
    {f \in FieldSet : Constrains(required_fields[f])
                      /\ CriterionFails(required_fields[f], attrs[f])}

C2_Case == RulesDone /\ AttrsAsResolved /\ first_missing = <<>>

C2_Holds(failing) ==
    /\ ~reasons_ineligible.none
    /\ Keys(reasons_ineligible.items) = failing
    /\ \A i \in 1..Len(reasons_ineligible.items) : reasons_ineligible.items[i].v # <<>>
    /\ eligible = IF failing = {} THEN conf.is_eligible_value
                  ELSE conf.is_ineligible_value

\* C2 as claimed: with the default hook and no missing data the keys of
\* reasons_ineligible are the fields whose accepted value is a str the value
\* differs from or a list/tuple/range it is not a member of, each with a
\* non-empty message, and the verdict is the eligible token when there is no
\* such field and the ineligible token otherwise.
C2_Original == C2_Case => C2_Holds(C2_ClaimedFailing)

\* C2 amended: the same, the failing fields being those whose accepted value
\* is a non-empty str the value differs from or a non-empty list/tuple/range
\* it is not a member of.
C2_Amended == C2_Case => C2_Holds(C2_Failing)

C2_Witness ==
    /\ pc = "done"
    /\ C2_Case
    /\ C2_Failing = FieldSet
    /\ Len(reasons_ineligible.items) = 2

\* the value of the field is falsy or is the missing sentinel of its FC
C3_Unanswered(f) ==
    /\ ~required_fields[f].ignore_if_missing
    /\ \/ attrs[f].t = "none"
       \/ attrs[f].t = "str" /\ attrs[f].s = ""
       \/ attrs[f].t = "int" /\ attrs[f].n = 0
       \/ attrs[f] = required_fields[f].missing_value

\* the field is tested and fails
TestedFails(f) ==
    /\ f \notin Keys(first_missing)
    /\ Constrains(required_fields[f])
    /\ CriterionFails(required_fields[f], attrs[f])

\* C3: a required field without ignore_if_missing whose value is falsy or is
\* the missing sentinel is in missing_data, and when every other required
\* field passes its criterion the construction does not raise and the
\* verdict is the default token.
C3_MissingIsPending ==
    \A f \in FieldSet :
      (RulesDone /\ AttrsAsResolved /\ C3_Unanswered(f)) =>
         /\ f \in Keys(first_missing)
         /\ f \in Keys(missing_data_cache)
         /\ (\A g \in FieldSet \ {f} : ~TestedFails(g)) =>
               /\ pc # "raised"
               /\ eligible = conf.eligible_value_default
               /\ eligible # conf.is_eligible_value
               /\ eligible # conf.is_ineligible_value

C3_Witness ==
    /\ pc = "done"
    /\ AttrsAsResolved
    /\ attrs["consent_ability"] = StrOf(NOT_APPLICABLE)
    /\ C3_Unanswered("consent_ability")
    /\ ~C3_Unanswered("age_in_years")
    /\ eligible = conf.eligible_value_default

\* C4 as claimed: a required field with ignore_if_missing whose value is
\* empty is not in missing_data, and when no other required field fails or
\* is missing the verdict is the eligible token and reasons_ineligible is
\* empty, whatever accepted value the FC declares.
C4_IgnoredStaysEligible ==
    \A f \in FieldSet :
      (RulesDone /\ AttrsAsResolved /\ required_fields[f].ignore_if_missing
       /\ ~Truthy(attrs[f])) =>
         /\ f \notin Keys(first_missing)
         /\ (\A g \in FieldSet \ {f} : g \notin Keys(first_missing) /\ ~TestedFails(g))
              => /\ eligible = conf.is_eligible_value
                 /\ reasons_ineligible = Reasons(<<>>)

\* the required fields, in order, whose key the supplied mapping lacks
\* (every required field when no mapping was supplied)
C5_Unavailable ==
    SelectSeq(Fields, LAMBDA f : ~cleaned_data.supplied \/ f \notin DOMAIN cleaned_data.data)

\* C5 as claimed: without a model instance, a required field whose key the
\* mapping cannot provide (mapping lacking the key, empty, or not supplied)
\* makes the construction raise ScreeningEligibilityCleanedDataKeyError
\* naming the field, and no other kind of error.
C5_KeyErrorOnly ==
    (~model_obj.supplied /\ ClassComplete /\ pc # "set_fld_attrs_on_self"
     /\ C5_Unavailable # <<>>)
      => /\ ResolutionRaised
         /\ err = [kind |-> "ScreeningEligibilityCleanedDataKeyError",
                   field |-> C5_Unavailable[1]]

\* the required fields, in order, the model instance has no attribute for
C6_Lacking == SelectSeq(Fields, LAMBDA f : f \notin DOMAIN model_obj.attrs)

\* C6 as claimed: with a model instance, a supplied mapping (even an empty
\* one, or one lacking the key) provides the value of every required field,
\* None for an absent key; the attribute of the model instance is used only
\* when no mapping was supplied, and a model instance lacking it then raises
\* ScreeningEligibilityModelAttributeError.
C6_MappingOverRecord ==
    (model_obj.supplied /\ ClassComplete /\ pc # "set_fld_attrs_on_self"
     /\ AttrsAsResolved)
      => IF cleaned_data.supplied
         THEN /\ ~ResolutionRaised
              /\ \A f \in FieldSet :
                   attrs[f] = IF f \in DOMAIN cleaned_data.data
                              THEN cleaned_data.data[f] ELSE None
         ELSE IF C6_Lacking = <<>>
              THEN /\ ~ResolutionRaised
                   /\ \A f \in FieldSet : attrs[f] = model_obj.attrs[f]
              ELSE /\ ResolutionRaised
                   /\ err = [kind |-> "ScreeningEligibilityModelAttributeError",
                             field |-> C6_Lacking[1]]

RECURSIVE C7_Piped(_)
\* the messages separated by "|"
C7_Piped(items) ==
    IF items = <<>> THEN <<>>
    ELSE IF Len(items) = 1 THEN items[1].v
    ELSE items[1].v \o <<"|">> \o C7_Piped(Tail(items))

\* the model instance carries the verdict and the joined reasons
C7_Written ==
    /\ model_obj.eligible = eligible
    /\ model_obj.reasons_ineligible =
         IF reasons_ineligible.items = <<>> THEN [none |-> TRUE, text |-> <<>>]
         ELSE [none |-> FALSE, text |-> C7_Piped(reasons_ineligible.items)]

\* C7: with a model instance, a construction that returns leaves in its
\* eligible field the verdict and in its reasons_ineligible field the
\* messages joined with "|" in the order of the reasons (None when there
\* are none); a construction that raises leaves both fields as they were;
\* the model instance is never saved.
C7_RecordSideEffect ==
    model_obj.supplied =>
      /\ pc = "done" => C7_Written
      /\ pc = "raised" =>
           /\ model_obj.eligible = StaleEligible
           /\ model_obj.reasons_ineligible = StaleReasons
      /\ model_obj.saves = 0

C7_Witness ==
    /\ pc = "done"
    /\ model_obj.supplied
    /\ Len(reasons_ineligible.items) = 2
    /\ C7_Written
    /\ \E i \in 1..Len(model_obj.reasons_ineligible.text) :
         model_obj.reasons_ineligible.text[i] = "|"

\* C8 as claimed: every read of missing_data after the first returns the
\* dict computed first, whether that dict is empty or not, even when field
\* attributes changed in between.
C8_Memoized == accesses >= 1 => returned = first_missing

\* the order of the steps of a construction that runs to its end
C9_Order ==
    <<"set_fld_attrs_on_self", "base_rules">>
    \o (IF tentative = conf.is_eligible_value THEN <<"assess_eligibility">> ELSE <<>>)
    \o <<"validate">>
    \o (IF model_obj.supplied
        THEN <<"_set_fld_attrs_on_model", "set_fld_attrs_on_model">> ELSE <<>>)

\* C9: the fields are resolved, then the base rules run, then
\* assess_eligibility runs once if the verdict after the base rules is the
\* eligible token and not at all otherwise, then the validation runs, then,
\* with a model instance only and only once the validation has passed and
\* the verdict and reasons are on the model instance, set_fld_attrs_on_model
\* runs.
C9_StepOrder ==
    /\ Len(trace) <= Len(C9_Order)
    /\ \A i \in 1..Len(trace) : trace[i] = C9_Order[i]
    /\ pc = "done" => trace = C9_Order
    /\ (\E i \in 1..Len(trace) : trace[i] = "set_fld_attrs_on_model") =>
         /\ model_obj.supplied
         /\ err.kind = ""
         /\ C7_Written

C9_Witness ==
    /\ pc = "done"
    /\ model_obj.supplied
    /\ hook = "override"
    /\ Len(trace) = 6

\* the message of a missing field
C10_NotAnswered(v) == Len(v) > 0 /\ v[Len(v)] = " not answered"

\* C10: with missing data and a failing field that is not missing the
\* verdict is the ineligible token and reasons_ineligible holds the missing
\* fields, each with its not-answered message, and the failing fields that
\* are not missing.
C10_MissingAndFailing ==
    (RulesDone /\ AttrsAsResolved /\ first_missing # <<>>
     /\ \E g \in FieldSet : TestedFails(g))
      => /\ eligible = conf.is_ineligible_value
         /\ Keys(reasons_ineligible.items) =
              Keys(first_missing) \cup {g \in FieldSet : TestedFails(g)}
         /\ \A i \in 1..Len(reasons_ineligible.items) :
              LET it == reasons_ineligible.items[i] IN
              IF it.k \in Keys(first_missing)
              THEN C10_NotAnswered(it.v)
              ELSE ~C10_NotAnswered(it.v)

C10_Witness ==
    /\ pc = "done"
    /\ AttrsAsResolved
    /\ first_missing # <<>>
    /\ \E g \in FieldSet : TestedFails(g)
    /\ eligible = conf.is_ineligible_value
    /\ \E i \in 1..Len(first_missing) : Constrains(required_fields[first_missing[i].k])

====
